---------------------------- MODULE Spec2Model ----------------------------
(***************************************************************************)
(* Model of leoguqq/StockPosition.                                         *)
(*                                                                         *)
(*   src/stock_monitor.py   the threshold monitor: reads the ledger,       *)
(*                          fetches prices, alerts on a breach of          *)
(*                          High Line / Low Line and ratchets the line.    *)
(*   src/stock_position.py  the valuation run: prices every stock in USD,  *)
(*                          computes net assets and ratios, writes back.   *)
(*                                                                         *)
(* The monitor only ever writes Last Price and never reads it: the model   *)
(* records each PATCH of it (attempted, succeeded) and keeps no value.     *)
(*                                                                         *)
(* Numbers.  The programs compute in floating point.  The model computes   *)
(* in exact fixed point:                                                   *)
(*   - monitor prices and lines are integers in thousandths (0.001) of a   *)
(*     currency unit, so that round(x, 2) is a real rounding of a finer    *)
(*     value to the cent;                                                  *)
(*   - a rounding whose exact argument lies exactly half-way between two   *)
(*     results is decided in Python by the binary representation of the    *)
(*     float; the model allows both neighbours there.                      *)
(***************************************************************************)
EXTENDS Integers, Sequences, FiniteSets, TLC

(***************************************************************************)
(* Bounds of the model.                                                    *)
(***************************************************************************)
\* number of rows of the ledger read by a monitor run
NumRecords == 2

Pages == 1..NumRecords

(***************************************************************************)
(* ===================== src/stock_monitor.py =====================        *)
(***************************************************************************)

\* parse_number returns None for a property that is missing or not a number
\* (and Notion gives None for an empty number cell); prices.get(code) gives
\* None for a code with no price.  Both are modelled by a value below every
\* price and line of the model.
None == -1

\* Notion property names (stock_monitor.py 35-37)
LAST_PRICE_NAME == "Last Price"
HIGH_LINE_NAME == "High Line"
LOW_LINE_NAME == "Low Line"

\* the ratchet factors of main: price * 1.01 and price * 0.99, in hundredths
HighFactor == 101
LowFactor == 99

\* Instrument codes of the ledger rows (the Name title of page r).
CodeOf == <<"000001.SZ", "0700.HK", "AAPL", "7203.T">>

\* Prices the upstream may report, in thousandths:
\*   14    0.014  a sub-cent penny price (1% of it is far below half a cent)
\*   250   0.25   a whole-cent price below 0.50
\*   625   0.625  a price above 0.50 that is not a whole number of cents
PriceSet == {14, 250, 625}

\* Rows a ledger may hold: name present or empty, each line present or not,
\* bands below, around and above the prices, and one inverted band.  The
\* ledger of an initial state takes consecutive rows of this list.
LedgerShapes ==
    << [named |-> FALSE, high_line |-> 750,  low_line |-> 375],
       [named |-> TRUE,  high_line |-> 12,   low_line |-> 5],
       [named |-> TRUE,  high_line |-> 1000, low_line |-> 875],
       [named |-> TRUE,  high_line |-> 750,  low_line |-> 375],
       [named |-> TRUE,  high_line |-> None, low_line |-> 375],
       [named |-> TRUE,  high_line |-> 625,  low_line |-> None],
       [named |-> TRUE,  high_line |-> 125,  low_line |-> 875] >>

VARIABLES
    store,       \* the Notion database: page -> [name, high_line, low_line]
    records,     \* main's `records`: the entries query_notion_entries returned
    prices,      \* main's `prices`: page (by its code) -> price, None if absent
    mpc,         \* position of main: "idle", "queried", "loop", "done"
    idx,         \* index into valid_records of the for loop
    alerted,     \* this run: page -> "none" / "high" / "low" (send_alert_email called)
    alerts,      \* this run: page -> number of send_alert_email calls
    mailed,      \* this run: page -> send_alert_email returned True
    patched,     \* this run: page -> property names a PATCH was attempted for
    patches,     \* this run: page -> number of PATCH requests sent
    written,     \* this run: page -> property names whose PATCH succeeded
    prevRatchet  \* page -> price at which the previous run ratcheted a line, or None

mvars == <<store, records, prices, mpc, idx, alerted, alerts, mailed, patched, patches,
           written, prevRatchet>>

(***************************************************************************)
(* round(): nearest multiple, the two neighbours on an exact tie.          *)
(* RoundHalf(num, den) is the set of integers round(num / den) may be.     *)
(***************************************************************************)
RoundHalf(num, den) ==
    LET q == num \div den
        r == num % den
    IN  IF 2 * r < den THEN {q}
        ELSE IF 2 * r > den THEN {q + 1}
        ELSE {q, q + 1}

\* (mutant: the new line is truncated to the cent instead of rounded)
RatchetLineTruncated(price, factor) == {((price * factor) \div 1000) * 10}

\* round(price * 1.01, 2) and round(price * 0.99, 2): main computes the
\* product, update_notion_property rounds it to two decimals.  The product
\* of p thousandths by f hundredths is p * f / 1000 cents.
RatchetLine(price, factor) == {c * 10 : c \in RoundHalf(price * factor, 1000)}

(***************************************************************************)
(* query_notion_entries: one entry per page, in page order, with the two   *)
(* lines parsed by parse_number; or nothing when the request fails.        *)
(***************************************************************************)
Entry(r) ==
    [page_id |-> r, name |-> store[r].name,
     high_line |-> store[r].high_line, low_line |-> store[r].low_line]

AllEntries == [r \in Pages |-> Entry(r)]

\* valid_records = [r for r in records if r["name"]]
HasName(e) == e.name # ""
valid_records == SelectSeq(records, HasName)

NoLog == [r \in Pages |-> {}]

MonitorInit ==
    /\ \E off \in 0..(Len(LedgerShapes) - 1) :
          store = [r \in Pages |->
                     LET s == LedgerShapes[((r - 1 + off) % Len(LedgerShapes)) + 1]
                     IN  [name |-> IF s.named THEN CodeOf[r] ELSE "",
                          high_line |-> s.high_line,
                          low_line |-> s.low_line]]
    /\ records = <<>>
    /\ prices = [r \in Pages |-> None]
    /\ mpc = "idle"
    /\ idx = 1
    /\ alerted = [r \in Pages |-> "none"]
    /\ alerts = [r \in Pages |-> 0]
    /\ mailed = [r \in Pages |-> FALSE]
    /\ patched = NoLog
    /\ patches = [r \in Pages |-> 0]
    /\ written = NoLog
    /\ prevRatchet = [r \in Pages |-> None]

\* The price at which this run ratcheted a line of page r, or None.
RatchetedAt(r) ==
    IF written[r] \cap {HIGH_LINE_NAME, LOW_LINE_NAME} # {} THEN prices[r] ELSE None

\* main starts: records = query_notion_entries()
Query ==
    /\ mpc \in {"idle", "done"}
    /\ \E ok \in BOOLEAN : records' = IF ok THEN AllEntries ELSE <<>>
    /\ prevRatchet' = [r \in Pages |-> RatchetedAt(r)]
    /\ prices' = [r \in Pages |-> None]
    /\ alerted' = [r \in Pages |-> "none"]
    /\ alerts' = [r \in Pages |-> 0]
    /\ mailed' = [r \in Pages |-> FALSE]
    /\ patched' = NoLog
    /\ patches' = [r \in Pages |-> 0]
    /\ written' = NoLog
    /\ idx' = 1
    /\ mpc' = "queried"
    /\ UNCHANGED store

\* The mappings fetch_stock_prices may return for the codes of valid_records:
\* a price for any subset of the requested codes ({} on any failure).
PriceMaps ==
    {m \in [Pages -> PriceSet \cup {None}] :
        \A r \in Pages :
            m[r] # None => \E i \in 1..Len(valid_records) : valid_records[i].page_id = r}

\* prices = fetch_stock_prices(codes); if not prices: return
FetchPrices ==
    /\ mpc = "queried"
    /\ \E m \in PriceMaps :
          /\ prices' = m
          /\ mpc' = IF \A r \in Pages : m[r] = None THEN "done" ELSE "loop"
    /\ UNCHANGED <<store, records, idx, alerted, alerts, mailed, patched, patches, written,
                   prevRatchet>>

\* the record of the current loop iteration
InLoop == mpc = "loop" /\ idx <= Len(valid_records)
Cur == valid_records[idx]

\* (mutant: skips only a record that has neither line)
MissingBothLines(rec) == rec.high_line = None /\ rec.low_line = None

\* if None in [record["high_line"], record["low_line"]]
MissingLine(rec) == rec.high_line = None \/ rec.low_line = None

\* (mutant: the low line is tested first)
BreachKindLowFirst(price, rec) ==
    IF price < rec.low_line THEN "low"
    ELSE IF price > rec.high_line THEN "high"
    ELSE "none"

\* (mutant: the low line is compared the wrong way round)
BreachKindLowFlipped(price, rec) ==
    IF price > rec.high_line THEN "high"
    ELSE IF price > rec.low_line THEN "low"
    ELSE "none"

\* the if / elif / else of main on the price and the record's lines
BreachKind(price, rec) ==
    IF price > rec.high_line THEN "high"
    ELSE IF price < rec.low_line THEN "low"
    ELSE "none"

\* for: advance to the next record (continue / end of the body)
Advance == idx' = idx + 1 /\ mpc' = "loop"

\* price is None: continue
SkipNoPrice ==
    /\ InLoop
    /\ prices[Cur.page_id] = None
    /\ Advance
    /\ UNCHANGED <<store, records, prices, alerted, alerts, mailed, patched, patches, written,
                   prevRatchet>>

\* update_notion_property(last_price=price) returned False: continue
LastPriceFailed ==
    /\ InLoop
    /\ prices[Cur.page_id] # None
    /\ patched' = [patched EXCEPT ![Cur.page_id] = @ \cup {LAST_PRICE_NAME}]
    /\ patches' = [patches EXCEPT ![Cur.page_id] = @ + 1]
    /\ Advance
    /\ UNCHANGED <<store, records, prices, alerted, alerts, mailed, written, prevRatchet>>

\* Last Price written, a line is missing: continue
SkipNoLines ==
    /\ InLoop
    /\ prices[Cur.page_id] # None
    /\ MissingLine(Cur)
    /\ patched' = [patched EXCEPT ![Cur.page_id] = @ \cup {LAST_PRICE_NAME}]
    /\ patches' = [patches EXCEPT ![Cur.page_id] = @ + 1]
    /\ written' = [written EXCEPT ![Cur.page_id] = @ \cup {LAST_PRICE_NAME}]
    /\ Advance
    /\ UNCHANGED <<store, records, prices, alerted, alerts, mailed, prevRatchet>>

\* Last Price written, both lines present, price within the band
Normal ==
    /\ InLoop
    /\ prices[Cur.page_id] # None
    /\ ~MissingLine(Cur)
    /\ BreachKind(prices[Cur.page_id], Cur) = "none"
    /\ patched' = [patched EXCEPT ![Cur.page_id] = @ \cup {LAST_PRICE_NAME}]
    /\ patches' = [patches EXCEPT ![Cur.page_id] = @ + 1]
    /\ written' = [written EXCEPT ![Cur.page_id] = @ \cup {LAST_PRICE_NAME}]
    /\ Advance
    /\ UNCHANGED <<store, records, prices, alerted, alerts, mailed, prevRatchet>>

\* (mutant: the low line is tested with `if`, not `elif`: a price above
\* high_line and below low_line takes both branches)
AlertBothBreaches(rec, kind, price, sent, wrote) ==
    LET r == rec.page_id
        both == kind = "high" /\ price < rec.low_line
        props == IF both THEN {HIGH_LINE_NAME, LOW_LINE_NAME}
                 ELSE IF kind = "high" THEN {HIGH_LINE_NAME} ELSE {LOW_LINE_NAME}
    IN  /\ alerted' = [alerted EXCEPT ![r] = IF both THEN "low" ELSE kind]
        /\ alerts' = [alerts EXCEPT ![r] = @ + Cardinality(props)]
        /\ mailed' = [mailed EXCEPT ![r] = sent]
        /\ patched' = [patched EXCEPT ![r] =
                          @ \cup {LAST_PRICE_NAME} \cup (IF sent THEN props ELSE {})]
        /\ patches' = [patches EXCEPT ![r] =
                          @ + 1 + (IF sent THEN Cardinality(props) ELSE 0)]
        /\ written' = [written EXCEPT ![r] =
                          @ \cup {LAST_PRICE_NAME}
                            \cup (IF sent /\ wrote THEN props ELSE {})]
        /\ \E hi \in RatchetLine(price, HighFactor), lo \in RatchetLine(price, LowFactor) :
              store' = [store EXCEPT
                          ![r].high_line =
                              IF sent /\ wrote /\ HIGH_LINE_NAME \in props THEN hi ELSE @,
                          ![r].low_line =
                              IF sent /\ wrote /\ LOW_LINE_NAME \in props THEN lo ELSE @]

\* (mutant: the line is written whether or not the alert was sent)
AlertUngated(rec, kind, price, sent, wrote) ==
    LET r == rec.page_id
        prop == IF kind = "high" THEN HIGH_LINE_NAME ELSE LOW_LINE_NAME
        factor == IF kind = "high" THEN HighFactor ELSE LowFactor
    IN  /\ alerted' = [alerted EXCEPT ![r] = kind]
        /\ alerts' = [alerts EXCEPT ![r] = @ + 1]
        /\ mailed' = [mailed EXCEPT ![r] = sent]
        /\ patched' = [patched EXCEPT ![r] = @ \cup {LAST_PRICE_NAME, prop}]
        /\ patches' = [patches EXCEPT ![r] = @ + 2]
        /\ written' = [written EXCEPT ![r] =
                          @ \cup {LAST_PRICE_NAME} \cup (IF wrote THEN {prop} ELSE {})]
        /\ \E line \in RatchetLine(price, factor) :
              store' = [store EXCEPT
                          ![r].high_line = IF wrote /\ kind = "high" THEN line ELSE @,
                          ![r].low_line = IF wrote /\ kind = "low" THEN line ELSE @]

\* The branch of a breach: send_alert_email(kind, record, price) returns
\* `sent`; only then the new line is computed and update_notion_property is
\* called for it, returning `wrote`.
AlertAndRatchet(rec, kind, price, sent, wrote) ==
    LET r == rec.page_id
        prop == IF kind = "high" THEN HIGH_LINE_NAME ELSE LOW_LINE_NAME
        factor == IF kind = "high" THEN HighFactor ELSE LowFactor
    IN  /\ alerted' = [alerted EXCEPT ![r] = kind]
        /\ alerts' = [alerts EXCEPT ![r] = @ + 1]
        /\ mailed' = [mailed EXCEPT ![r] = sent]
        /\ patched' = [patched EXCEPT ![r] =
                          @ \cup {LAST_PRICE_NAME} \cup (IF sent THEN {prop} ELSE {})]
        /\ patches' = [patches EXCEPT ![r] = @ + 1 + (IF sent THEN 1 ELSE 0)]
        /\ written' = [written EXCEPT ![r] =
                          @ \cup {LAST_PRICE_NAME}
                            \cup (IF sent /\ wrote THEN {prop} ELSE {})]
        /\ \E line \in RatchetLine(price, factor) :
              store' = [store EXCEPT
                          ![r].high_line =
                              IF sent /\ wrote /\ kind = "high" THEN line ELSE @,
                          ![r].low_line =
                              IF sent /\ wrote /\ kind = "low" THEN line ELSE @]

\* Last Price written, both lines present, price > high_line
HighBreach ==
    /\ InLoop
    /\ prices[Cur.page_id] # None
    /\ ~MissingLine(Cur)
    /\ BreachKind(prices[Cur.page_id], Cur) = "high"
    /\ \E sent \in BOOLEAN, wrote \in BOOLEAN :
          AlertAndRatchet(Cur, "high", prices[Cur.page_id], sent, wrote)
    /\ Advance
    /\ UNCHANGED <<records, prices, prevRatchet>>

\* Last Price written, both lines present, not above high_line, price < low_line
LowBreach ==
    /\ InLoop
    /\ prices[Cur.page_id] # None
    /\ ~MissingLine(Cur)
    /\ BreachKind(prices[Cur.page_id], Cur) = "low"
    /\ \E sent \in BOOLEAN, wrote \in BOOLEAN :
          AlertAndRatchet(Cur, "low", prices[Cur.page_id], sent, wrote)
    /\ Advance
    /\ UNCHANGED <<records, prices, prevRatchet>>

\* the for loop is exhausted: main returns
FinishMonitor ==
    /\ mpc = "loop"
    /\ idx > Len(valid_records)
    /\ mpc' = "done"
    /\ UNCHANGED <<store, records, prices, idx, alerted, alerts, mailed, patched, patches,
                   written, prevRatchet>>

(***************************************************************************)
(* ===================== src/stock_position.py =====================       *)
(*                                                                         *)
(* Units of the valuation run:                                             *)
(*   current_assets, stored assets    cents                                *)
(*   shares                           whole shares                         *)
(*   price (stock_data)               1 / PriceScale of a currency unit    *)
(*   fx rate                          1 / FxScale                          *)
(*   new_assets, net value            1 / (PriceScale * FxScale) dollars   *)
(*   usd_price                        1 / PriceScale dollars               *)
(*   new_ratio, stored ratio          1 / RatioScale                       *)
(* A key a dict does not hold is the value Unset ("" for the currency).    *)
(*                                                                         *)
(* TOKEN_URL and REALTIME_URL are used by stock_position.py and defined    *)
(* only in stock_monitor.py (lines 31-32).  The model takes them as        *)
(* defined, so a token acquisition may succeed or fail; with the names     *)
(* undefined every acquisition takes the failure branch of                 *)
(* get_ifind_access_token, which is one of the behaviours of the model.    *)
(***************************************************************************)

\* number of rows of the ledger read by a valuation run
NumEntries == 3

\* round(x, 4): prices and ratios carry four decimals
PriceScale == 10000
RatioScale == 10000
\* fx rates are represented in eighths: 1.0 is FxScale
FxScale == 8
\* cents in a dollar: round(assets, 2)
CentScale == 100

\* entry.get(key, default) / KeyError: the key is not in the dict
Unset == -2

\* the names of the two special records (written in Chinese in the source;
\* only equality of names matters)
CASH_NAME == "CASH"
NET_ASSET_NAME == "NET_ASSET"

\* CURRENCY_MAPPER: currency -> the FX pair requested, as base and quote of
\* the code BASEQUOTE.FX
CURRENCY_MAPPER ==
    [c \in {"CNY", "RMB", "HKD", "JPY", "EUR"} |->
        CASE c = "CNY" -> [base |-> "USD", quote |-> "CNY"]
          [] c = "RMB" -> [base |-> "USD", quote |-> "CNY"]
          [] c = "HKD" -> [base |-> "HKD", quote |-> "USD"]
          [] c = "JPY" -> [base |-> "JPY", quote |-> "USD"]
          [] c = "EUR" -> [base |-> "EUR", quote |-> "USD"]]

\* Instrument codes of the model, with what str.endswith and str.isalpha
\* give for them: the suffix after the last dot ("" if none), and whether
\* the code is at most 5 letters.
CodeInfo ==
    [c \in {"AAPL", "0700.HK", "600519.SH", "BRK.B", "000001.SZ", "7203.T",
            "MSFT.O", "IBM.N", "0700.hk"} |->
        CASE c = "AAPL"      -> [suffix |-> "",    bare |-> TRUE]
          [] c = "0700.HK"   -> [suffix |-> ".HK", bare |-> FALSE]
          [] c = "600519.SH" -> [suffix |-> ".SH", bare |-> FALSE]
          [] c = "BRK.B"     -> [suffix |-> ".B",  bare |-> FALSE]
          [] c = "000001.SZ" -> [suffix |-> ".SZ", bare |-> FALSE]
          [] c = "7203.T"    -> [suffix |-> ".T",  bare |-> FALSE]
          [] c = "MSFT.O"    -> [suffix |-> ".O",  bare |-> FALSE]
          [] c = "IBM.N"     -> [suffix |-> ".N",  bare |-> FALSE]
          [] c = "0700.hk"   -> [suffix |-> ".hk", bare |-> FALSE]]

\* (mutant: every code is taken as valid)
validate_any(code) == TRUE

\* validate_stock_code
validate_stock_code(code) ==
    \/ CodeInfo[code].suffix \in {".HK", ".SZ", ".SH", ".O", ".N", ".T"}
    \/ CodeInfo[code].bare

\* (mutant: the Tokyo suffix is not looked at)
determine_currency_no_tokyo(code) ==
    LET sfx == CodeInfo[code].suffix
    IN  IF sfx = ".HK" THEN "HKD"
        ELSE IF sfx \in {".SZ", ".SH"} THEN "CNY"
        ELSE "USD"

\* determine_currency
determine_currency(code) ==
    LET sfx == CodeInfo[code].suffix
    IN  IF sfx = ".HK" THEN "HKD"
        ELSE IF sfx \in {".SZ", ".SH"} THEN "CNY"
        ELSE IF sfx \in {".O", ".N"} THEN "USD"
        ELSE IF sfx = ".T" THEN "JPY"
        ELSE "USD"

\* Rows a ledger may hold (what query_notion_entries builds for each page):
\* stocks with numeric and non-numeric shares, one with a code that is not
\* valid, cash rows with a numeric, a zero and a non-numeric value, and the
\* net asset row.  current_assets is the value stored by an earlier run.
LedgerRows ==
    << [name |-> "AAPL",         shares |-> 4,    current_assets |-> 777],
       [name |-> CASH_NAME,      shares |-> None, current_assets |-> 1000],
       [name |-> "0700.HK",      shares |-> 2,    current_assets |-> 555],
       [name |-> NET_ASSET_NAME, shares |-> None, current_assets |-> 2332],
       [name |-> "600519.SH",    shares |-> None, current_assets |-> 333],
       [name |-> "BRK.B",        shares |-> 1,    current_assets |-> 111],
       [name |-> CASH_NAME,      shares |-> None, current_assets |-> None],
       [name |-> CASH_NAME,      shares |-> None, current_assets |-> 0] >>

RowIds == 1..Len(LedgerRows)

\* Values of a response that float() does not take: a text that is no
\* number (ValueError) and null (TypeError).
BadText == -3
BadNull == -4
Bad == {BadText, BadNull}

\* Rates the upstream may quote for an FX pair (0.125 and 8.0).
RateSet == {1, 64}

\* Latest values the upstream may report for an instrument, in 1/10 of the
\* price unit (2.50004 and 40.00000): fetch_stock_data rounds them to four
\* decimals.
RawQuoteSet == {250004, 4000000}

VARIABLES
    pstore,       \* the Notion database: page id -> row with its stored values
    entries,      \* main's `entries`, a list of dicts
    fx_rates,     \* main's `fx_rates`: currency -> rate
    stock_data,   \* main's `stock_data`: code -> price
    ACCESS_TOKEN_CACHE,  \* the module global: FALSE (None) or TRUE (a token)
    token_calls,  \* this run: token requests sent by get_ifind_access_token
    net_value,    \* calculate_assets' new_net_value (Unset until computed)
    calc_failed,  \* calculate_assets took its except branch
    ppc,          \* position of main
    widx,         \* index into entries of the update loop
    success,      \* main's `success`
    pattempt,     \* this run: page id -> update calls that sent a PATCH
    pwrote,       \* this run: page id -> update calls that returned True
    tries,        \* the PATCH requests of the update calls made for the latest
                  \* record: call -> [sent, landed]
    requested     \* this run: the codes sent in the quote request

pvars == <<pstore, entries, fx_rates, stock_data, ACCESS_TOKEN_CACHE, token_calls,
           net_value, calc_failed, ppc, widx, success, pattempt, pwrote, tries,
           requested>>

\* no PATCH request was sent
NoCall == [sent |-> 0, landed |-> 0]
NoCalls == [properties |-> NoCall, assets |-> NoCall]

\* the empty dict
EmptyDict == [k \in {} |-> 0]

\* The ledgers of the model: NumEntries rows of LedgerRows, in their order.
RECURSIVE SeqOfSet(_)
SeqOfSet(S) ==
    IF S = {} THEN <<>>
    ELSE LET m == CHOOSE x \in S : \A y \in S : x <= y
         IN  <<m>> \o SeqOfSet(S \ {m})

Ledgers == {S \in SUBSET RowIds : Cardinality(S) = NumEntries}

PositionInit ==
    /\ \E S \in Ledgers :
          pstore = [id \in S |->
                      [name |-> LedgerRows[id].name,
                       shares |-> LedgerRows[id].shares,
                       assets |-> LedgerRows[id].current_assets,
                       ratio |-> Unset, price |-> Unset, usd_price |-> Unset,
                       currency |-> ""]]
    /\ entries = <<>>
    /\ fx_rates = EmptyDict
    /\ stock_data = EmptyDict
    /\ ACCESS_TOKEN_CACHE = FALSE
    /\ token_calls = 0
    /\ net_value = Unset
    /\ calc_failed = FALSE
    /\ ppc = "start"
    /\ widx = 1
    /\ success = 0
    /\ pattempt = [id \in DOMAIN pstore |-> {}]
    /\ pwrote = [id \in DOMAIN pstore |-> {}]
    /\ tries = NoCalls
    /\ requested = {}

\* query_notion_entries builds entry_data for one page
entry_data(id) ==
    [id |-> id,
     name |-> pstore[id].name,
     is_stock |-> pstore[id].name \notin {CASH_NAME, NET_ASSET_NAME},
     shares |-> pstore[id].shares,
     current_assets |-> pstore[id].assets,
     currency |-> "", price |-> Unset, usd_price |-> Unset,
     new_assets |-> Unset, new_ratio |-> Unset]

\* main lines 381-385: entry['currency'] = determine_currency(code) for the
\* stock entries
WithCurrency(es) ==
    [i \in 1..Len(es) |->
        IF es[i].is_stock
        THEN [es[i] EXCEPT !.currency = determine_currency(es[i].name)]
        ELSE es[i]]

\* entries = query_notion_entries(); if not entries: return; then the
\* currencies are set.  The query gives every page, or [] when it fails.
QueryEntries ==
    /\ ppc = "start"
    /\ \E ok \in BOOLEAN :
          IF ok
          THEN /\ entries' = WithCurrency([i \in 1..Cardinality(DOMAIN pstore) |->
                                              entry_data(SeqOfSet(DOMAIN pstore)[i])])
               /\ ppc' = "fx"
          ELSE /\ entries' = <<>>
               /\ ppc' = "done"
    /\ UNCHANGED <<pstore, fx_rates, stock_data, ACCESS_TOKEN_CACHE, token_calls,
                   net_value, calc_failed, widx, success, pattempt, pwrote, tries, requested>>

stock_entries(es) == {i \in 1..Len(es) : es[i].is_stock}

\* stock_codes = [e['name'] for e in stock_entries if validate_stock_code(e['name'])]
stock_codes(es) == {es[i].name : i \in {j \in stock_entries(es) : validate_stock_code(es[j].name)}}

\* currencies = [entry['currency'] for entry in stock_entries]
currencies(es) == {es[i].currency : i \in stock_entries(es)}

\* round(): num / den to the nearest integer; `up` decides an exact tie
Round(num, den, up) ==
    LET q == num \div den
        r == num % den
    IN  IF 2 * r > den \/ (2 * r = den /\ up) THEN q + 1 ELSE q

\* (mutant: a failed acquisition still hands a token to its caller)
get_ifind_access_token_leaky ==
    IF ACCESS_TOKEN_CACHE
    THEN {[token |-> TRUE, cache |-> TRUE, calls |-> token_calls]}
    ELSE {[token |-> TRUE, cache |-> got, calls |-> token_calls + 1] : got \in BOOLEAN}

(***************************************************************************)
(* get_ifind_access_token: the cached token, or one request whose success  *)
(* fills the cache.  Gives [token, cache, calls]: whether a token is       *)
(* returned, the cache and the number of requests afterwards.              *)
(***************************************************************************)
get_ifind_access_token ==
    IF ACCESS_TOKEN_CACHE
    THEN {[token |-> TRUE, cache |-> TRUE, calls |-> token_calls]}
    ELSE {[token |-> got, cache |-> got, calls |-> token_calls + 1] : got \in BOOLEAN}

\* the FX pair requested for a currency
FxPair(c) ==
    IF c \in DOMAIN CURRENCY_MAPPER THEN CURRENCY_MAPPER[c]
    ELSE [base |-> c, quote |-> "USD"]

\* 1 / rate, in 1 / FxScale (exact for the rates of RateSet)
Inverse(rate) == (FxScale * FxScale) \div rate

\* the key fetch_fx_rates stores a quoted pair under
RateKey(pair) == IF pair.quote = "USD" THEN pair.base ELSE pair.quote

\* fetch_fx_rates, lines 186-208: the rates of a response (pair -> latest),
\* a pair quoted in USD as it is and any other inverted, and USD -> 1.0
\* (float() raising anywhere in the loop ends in the except of line 210: {})
ParseFx(resp) ==
    IF \E p \in DOMAIN resp : resp[p] \in Bad
    THEN EmptyDict
    ELSE [k \in {RateKey(p) : p \in DOMAIN resp} \cup {"USD"} |->
            IF k = "USD" THEN FxScale
            ELSE LET p == CHOOSE p \in DOMAIN resp : RateKey(p) = k
                 IN  IF p.quote = "USD" THEN resp[p] ELSE Inverse(resp[p])]

\* The responses the upstream may give for a set of codes: a latest value
\* for any subset of them.
Responses(codes, values) ==
    UNION {[sub -> values] : sub \in SUBSET codes}

\* fx_rates = fetch_fx_rates(currencies)
FetchFx ==
    /\ ppc = "fx"
    /\ LET cs == currencies(entries) \ {"USD"}
       IN  IF cs = {}
           THEN /\ fx_rates' = EmptyDict
                /\ UNCHANGED <<ACCESS_TOKEN_CACHE, token_calls>>
           ELSE \E t \in get_ifind_access_token :
                   /\ ACCESS_TOKEN_CACHE' = t.cache
                   /\ token_calls' = t.calls
                   /\ IF ~t.token
                      THEN fx_rates' = EmptyDict
                      ELSE \/ fx_rates' = EmptyDict
                           \/ \E resp \in Responses({FxPair(c) : c \in cs}, RateSet) :
                                 fx_rates' = ParseFx(resp)
    /\ ppc' = "quotes"
    /\ UNCHANGED <<pstore, entries, stock_data, net_value, calc_failed, widx,
                   success, pattempt, pwrote, tries, requested>>

\* fetch_stock_data, lines 240-251: code -> round(float(latest), 4)
\* (float() raising anywhere in the loop ends in the except of line 253: {})
ParseQuotes(resp) ==
    IF \E c \in DOMAIN resp : resp[c] \in Bad
    THEN EmptyDict
    ELSE [c \in DOMAIN resp |-> Round(resp[c], 10, FALSE)]

\* stock_data = fetch_stock_data(stock_codes)
FetchStockData ==
    /\ ppc = "quotes"
    /\ \E t \in get_ifind_access_token :
          /\ ACCESS_TOKEN_CACHE' = t.cache
          /\ token_calls' = t.calls
          /\ IF ~t.token \/ stock_codes(entries) = {}
             THEN stock_data' = EmptyDict /\ requested' = {}
             ELSE /\ requested' = stock_codes(entries)
                  /\ \/ stock_data' = EmptyDict
                     \/ \E resp \in Responses(stock_codes(entries), RawQuoteSet) :
                           stock_data' = ParseQuotes(resp)
    /\ ppc' = "calc"
    /\ UNCHANGED <<pstore, entries, fx_rates, net_value, calc_failed, widx,
                   success, pattempt, pwrote, tries>>

(***************************************************************************)
(* calculate_assets(entries, stock_data, fx_rates)                         *)
(***************************************************************************)
\* next((i for e in entries if e['name'] == name), None): 0 for None
FirstNamed(es, name) ==
    IF \E i \in 1..Len(es) : es[i].name = name
    THEN CHOOSE i \in 1..Len(es) :
            /\ es[i].name = name
            /\ \A j \in 1..(i - 1) : es[j].name # name
    ELSE 0

\* not (not cash_entry or not isinstance(cash_entry['current_assets'], (int, float)))
CashValid(es) ==
    /\ FirstNamed(es, CASH_NAME) # 0
    /\ es[FirstNamed(es, CASH_NAME)].current_assets # None

\* float(cash_entry['current_assets']): cents in the unit of new_assets
cash_assets(es) ==
    es[FirstNamed(es, CASH_NAME)].current_assets * ((PriceScale * FxScale) \div CentScale)

\* (mutant: a stock without a quote keeps no new_assets instead of 0.0)
ValueStockSkipping(e, sd, fx, up) ==
    IF e.name \notin DOMAIN sd
    THEN e
    ELSE LET shares == IF e.shares # None THEN e.shares ELSE 0
             fx_rate == IF e.currency \in DOMAIN fx THEN fx[e.currency] ELSE FxScale
             usd_price == sd[e.name] * fx_rate
         IN  [e EXCEPT !.price = sd[e.name],
                       !.usd_price = Round(usd_price, FxScale, up),
                       !.new_assets = usd_price * shares]

\* lines 277-291, the body of the stock loop for one entry whose currency
\* is set: new_assets = 0.0, and with a quote price, usd_price, new_assets
ValueStock(e, sd, fx, up) ==
    IF e.name \notin DOMAIN sd
    THEN [e EXCEPT !.new_assets = 0]
    ELSE LET shares == IF e.shares # None THEN e.shares ELSE 0
             fx_rate == IF e.currency \in DOMAIN fx THEN fx[e.currency] ELSE FxScale
             usd_price == sd[e.name] * fx_rate
         IN  [e EXCEPT !.price = sd[e.name],
                       !.usd_price = Round(usd_price, FxScale, up),
                       !.new_assets = usd_price * shares]

\* (mutant: every stock's value is added, priced or not, from the stored value)
AddedStale(e, sd) ==
    IF e.name \in DOMAIN sd THEN e.new_assets
    ELSE e.current_assets * ((PriceScale * FxScale) \div CentScale)

\* line 293: total_stock_assets += entry['new_assets'], inside `if code in
\* stock_data`
Added(e, sd) == IF e.name \in DOMAIN sd THEN e.new_assets ELSE 0

\* The stock loop from entry i on.  A priced stock entry without the key
\* 'currency' raises KeyError at line 282, after its new_assets was zeroed.
RECURSIVE ValueStocks(_, _, _, _, _, _)
ValueStocks(es, i, total, sd, fx, up) ==
    IF i > Len(es)
    THEN [entries |-> es, total |-> total, failed |-> FALSE]
    ELSE IF ~es[i].is_stock
    THEN ValueStocks(es, i + 1, total, sd, fx, up)
    ELSE IF es[i].name \in DOMAIN sd /\ es[i].currency = ""
    THEN [entries |-> [es EXCEPT ![i].new_assets = 0], total |-> total, failed |-> TRUE]
    ELSE LET e == ValueStock(es[i], sd, fx, up[i])
         IN  ValueStocks([es EXCEPT ![i] = e], i + 1, total + Added(e, sd), sd, fx, up)

\* round(a / nav, 4) for 0 <= a and 0 < nav, digit by digit
RECURSIVE Quotient(_, _, _, _)
Quotient(rem, nav, digits, acc) ==
    IF digits = 0
    THEN [q |-> acc, rem |-> rem]
    ELSE Quotient((rem * 10) % nav, nav, digits - 1, acc * 10 + (rem * 10) \div nav)

\* (mutant: the ratio is truncated to four decimals)
RatioTruncated(a, nav, up) ==
    IF nav = 0 THEN 0
    ELSE Quotient(a % nav, nav, 4, a \div nav).q

\* line 304: round(asset_value / new_net_value, 4) if new_net_value != 0 else 0.0
Ratio(a, nav, up) ==
    IF nav = 0 THEN 0
    ELSE LET d == Quotient(a % nav, nav, 4, a \div nav)
         IN  IF 2 * d.rem > nav \/ (2 * d.rem = nav /\ up) THEN d.q + 1 ELSE d.q

\* lines 295-306: the net value goes to the net asset entry, every entry
\* gets its ratio
WithRatios(es, nav, up) ==
    LET n == FirstNamed(es, NET_ASSET_NAME)
        es1 == IF n # 0 THEN [es EXCEPT ![n].new_assets = nav] ELSE es
    IN  [i \in 1..Len(es1) |->
            [es1[i] EXCEPT !.new_ratio =
                Ratio(IF es1[i].new_assets = Unset THEN 0 ELSE es1[i].new_assets,
                      nav, up[i])]]

\* calculate_assets: [entries, nav, failed].  On an exception the entries
\* are returned as they are at that point.  up[i] decides the exact ties of
\* the roundings done for entry i.
calculate_assets(es, sd, fx, up) ==
    IF ~CashValid(es)
    THEN [entries |-> es, nav |-> Unset, failed |-> TRUE]
    ELSE LET c == FirstNamed(es, CASH_NAME)
             es1 == [es EXCEPT ![c].new_assets = cash_assets(es)]
             v == ValueStocks(es1, 1, 0, sd, fx, up)
             nav == cash_assets(es) + v.total
         IN  IF v.failed
             THEN [entries |-> v.entries, nav |-> Unset, failed |-> TRUE]
             ELSE [entries |-> WithRatios(v.entries, nav, up),
                   nav |-> nav, failed |-> FALSE]

\* entries = calculate_assets(entries, stock_data, fx_rates)
Calculate ==
    /\ ppc = "calc"
    /\ \E up \in [1..Len(entries) -> BOOLEAN] :
          LET res == calculate_assets(entries, stock_data, fx_rates, up)
          IN  /\ entries' = res.entries
              /\ net_value' = res.nav
              /\ calc_failed' = res.failed
    /\ ppc' = "update"
    /\ widx' = 1
    /\ UNCHANGED <<pstore, fx_rates, stock_data, ACCESS_TOKEN_CACHE, token_calls,
                   success, pattempt, pwrote, tries, requested>>

(***************************************************************************)
(* The update loop of main, and the two update functions.                  *)
(***************************************************************************)
\* for _ in range(3)
MaxTries == 3

\* (mutant: a single attempt, as update_notion_property of the monitor makes)
RetryOnce(t) ==
    [ok |-> t[1], sent |-> 1, landed |-> IF t[1] THEN 1 ELSE 0]

\* The retry loop of an update call, lines 327-339 and 353-365: t[k] tells
\* whether the k-th PATCH request would succeed.  The first success returns
\* True; MaxTries failures fall out of the loop and return False.  `sent`
\* counts the requests made and `landed` those that succeeded.
Retry(t) ==
    LET good == {k \in 1..MaxTries : t[k]}
    IN  IF good = {}
        THEN [ok |-> FALSE, sent |-> MaxTries, landed |-> 0]
        ELSE [ok |-> TRUE, sent |-> CHOOSE k \in good : \A j \in good : k <= j,
              landed |-> 1]

\* What an update call may do, over the ways the transport may behave.
UpdateOutcomes == {Retry(t) : t \in [1..MaxTries -> BOOLEAN]}

\* update_notion_properties succeeded: Last Price, USD Price and the
\* currency of update_data (entry.get with its defaults) are stored
PropertiesStored(ps, e) ==
    [ps EXCEPT ![e.id].price = IF e.price = Unset THEN 0 ELSE e.price,
               ![e.id].usd_price = IF e.usd_price = Unset THEN 0 ELSE e.usd_price,
               ![e.id].currency = IF e.currency = "" THEN "USD" ELSE e.currency]

\* update_asset_properties succeeded: round(assets, 2) and round(ratio, 4)
AssetsStored(ps, e, up) ==
    [ps EXCEPT ![e.id].assets =
                  Round(e.new_assets, (PriceScale * FxScale) \div CentScale, up),
               ![e.id].ratio = e.new_ratio]

\* entry['new_assets'] and entry['new_ratio'] can be read (no KeyError)
HasValuation(e) == e.new_assets # Unset /\ e.new_ratio # Unset

InUpdate == ppc = "update" /\ widx <= Len(entries)

\* a stock entry whose code is not in stock_data: continue
SkipUnpriced ==
    /\ InUpdate
    /\ entries[widx].is_stock
    /\ entries[widx].name \notin DOMAIN stock_data
    /\ widx' = widx + 1
    /\ tries' = NoCalls
    /\ UNCHANGED <<pstore, entries, fx_rates, stock_data, ACCESS_TOKEN_CACHE,
                   token_calls, net_value, calc_failed, ppc, success, pattempt,
                   pwrote, requested>>

\* (mutant: a quoted stock is counted as soon as its properties are written)
StockCountedEarly(o1, second, o2) == o1.ok

\* lines 416-418: success += 1 when both update calls returned True
StockCounted(o1, second, o2) == o1.ok /\ second /\ o2.ok

\* a stock entry with a quote: update_notion_properties, and if it returned
\* True, update_asset_properties
UpdateStock ==
    /\ InUpdate
    /\ entries[widx].is_stock
    /\ entries[widx].name \in DOMAIN stock_data
    /\ \E o1 \in UpdateOutcomes, o2 \in UpdateOutcomes, up \in BOOLEAN :
          LET e == entries[widx]
              second == o1.ok /\ HasValuation(e)
          IN  /\ pattempt' = [pattempt EXCEPT ![e.id] =
                                 @ \cup {"properties"}
                                   \cup (IF second THEN {"assets"} ELSE {})]
              /\ pwrote' = [pwrote EXCEPT ![e.id] =
                               @ \cup (IF o1.ok THEN {"properties"} ELSE {})
                                 \cup (IF second /\ o2.ok THEN {"assets"} ELSE {})]
              /\ pstore' = IF second /\ o2.ok
                           THEN AssetsStored(PropertiesStored(pstore, e), e, up)
                           ELSE IF o1.ok THEN PropertiesStored(pstore, e)
                           ELSE pstore
              /\ tries' = [properties |-> [sent |-> o1.sent, landed |-> o1.landed],
                            assets |-> IF second
                                       THEN [sent |-> o2.sent, landed |-> o2.landed]
                                       ELSE NoCall]
              /\ success' = IF StockCounted(o1, second, o2) THEN success + 1 ELSE success
    /\ widx' = widx + 1
    /\ UNCHANGED <<entries, fx_rates, stock_data, ACCESS_TOKEN_CACHE, token_calls,
                   net_value, calc_failed, ppc, requested>>

\* the cash or net asset entry: update_asset_properties, unless reading
\* new_assets or new_ratio raises KeyError (caught by the loop's except)
UpdateSpecial ==
    /\ InUpdate
    /\ ~entries[widx].is_stock
    /\ \E o \in UpdateOutcomes, up \in BOOLEAN :
          LET e == entries[widx]
              called == HasValuation(e)
          IN  /\ pattempt' = [pattempt EXCEPT ![e.id] =
                                 @ \cup (IF called THEN {"assets"} ELSE {})]
              /\ pwrote' = [pwrote EXCEPT ![e.id] =
                               @ \cup (IF called /\ o.ok THEN {"assets"} ELSE {})]
              /\ pstore' = IF called /\ o.ok THEN AssetsStored(pstore, e, up) ELSE pstore
              /\ tries' = [properties |-> NoCall,
                            assets |-> IF called
                                       THEN [sent |-> o.sent, landed |-> o.landed]
                                       ELSE NoCall]
              /\ success' = IF called /\ o.ok THEN success + 1 ELSE success
    /\ widx' = widx + 1
    /\ UNCHANGED <<entries, fx_rates, stock_data, ACCESS_TOKEN_CACHE, token_calls,
                   net_value, calc_failed, ppc, requested>>

\* the loop is exhausted: the summary is printed and main returns
FinishPosition ==
    /\ ppc = "update"
    /\ widx > Len(entries)
    /\ ppc' = "done"
    /\ UNCHANGED <<pstore, entries, fx_rates, stock_data, ACCESS_TOKEN_CACHE,
                   token_calls, net_value, calc_failed, widx, success, pattempt,
                   pwrote, tries, requested>>

(***************************************************************************)
(* The functions of the two programs called on their own, on inputs drawn  *)
(* from bounded sets.                                                      *)
(***************************************************************************)
VARIABLES
    call,   \* the call made last: [fn |-> the function, ...its arguments]
    ret     \* what it returned: [raised |-> an exception escaped, value |-> ...]

cvars == <<call, ret>>

CallsInit ==
    /\ call = [fn |-> "none"]
    /\ ret = [raised |-> FALSE, value |-> EmptyDict]

\* each behaviour makes one call
NoCallYet == call.fn = "none"

\* fetch_stock_prices of the monitor, lines 177-194, on the tables of a
\* response: an item whose float() raises ValueError is skipped by the
\* inner except; a TypeError passes it and reaches `except Exception`
\* (line 200), whose traceback.print_exc() raises NameError, traceback not
\* being imported by stock_monitor.py.
ParsePrices(resp) ==
    IF \E c \in DOMAIN resp : resp[c] = BadNull
    THEN [raised |-> TRUE, value |-> EmptyDict]
    ELSE [raised |-> FALSE,
          value |-> [c \in {d \in DOMAIN resp : resp[d] # BadText} |-> resp[c]]]

\* the codes a response is drawn for
QuoteCodes == {"AAPL", "0700.HK", "600519.SH"}
MonitorCodes == {CodeOf[r] : r \in Pages}

\* fetch_stock_prices(codes) with a token and an answer of errorcode 0
CallFetchStockPrices ==
    /\ NoCallYet
    /\ \E resp \in Responses(MonitorCodes, PriceSet \cup Bad) :
          /\ call' = [fn |-> "fetch_stock_prices", resp |-> resp]
          /\ ret' = ParsePrices(resp)

\* fetch_stock_data(stock_codes) with a token and an answer of errorcode 0
CallFetchStockData ==
    /\ NoCallYet
    /\ \E resp \in Responses(QuoteCodes, RawQuoteSet \cup Bad) :
          /\ call' = [fn |-> "fetch_stock_data", resp |-> resp]
          /\ ret' = [raised |-> FALSE, value |-> ParseQuotes(resp)]

\* (mutant: the currency codes are compared as they are given)
upper_asis(c) == c

\* str.upper on the currency codes of the model
upper(c) ==
    CASE c = "usd" -> "USD"
      [] c = "hkd" -> "HKD"
      [] OTHER -> c

\* fetch_fx_rates(currencies), lines 149-212, with or without a token, the
\* request failing (or answering an errorcode) or answering `resp`:
\* [request |-> the pairs sent upstream, value |-> the mapping returned]
fetch_fx_rates(curs, token, failed, resp) ==
    LET cs == {upper(c) : c \in {d \in curs : d # "" /\ upper(d) # "USD"}}
        fx_pairs == {FxPair(c) : c \in cs}
    IN  IF cs = {} \/ ~token
        THEN [request |-> {}, value |-> EmptyDict]
        ELSE IF failed
        THEN [request |-> fx_pairs, value |-> EmptyDict]
        ELSE [request |-> fx_pairs, value |-> ParseFx(resp)]

\* the currencies fetch_fx_rates is called with
FxInputs == {"USD", "usd", "hkd", "HKD", "CNY", "RMB", "GBP"}

\* what the upstream may answer to a request for `pairs`
FxAnswers(pairs) == Responses(pairs, RateSet \cup {BadText})

CallFetchFxRates ==
    /\ NoCallYet
    /\ \E curs \in SUBSET FxInputs, token \in BOOLEAN, failed \in BOOLEAN :
          \E resp \in FxAnswers(fetch_fx_rates(curs, token, failed, EmptyDict).request) :
              LET r == fetch_fx_rates(curs, token, failed, resp)
              IN  /\ call' = [fn |-> "fetch_fx_rates", currencies |-> curs,
                              token |-> token, failed |-> failed, resp |-> resp]
                  /\ ret' = [raised |-> FALSE, value |-> r.value, request |-> r.request]

\* An entry as calculate_assets may be handed it: built as
\* query_notion_entries builds it, a stock entry with the key 'currency'
\* that main sets, or without it.
ArgEntry(id, keyed) ==
    LET row == LedgerRows[id]
        stock == row.name \notin {CASH_NAME, NET_ASSET_NAME}
    IN  [id |-> id, name |-> row.name, is_stock |-> stock,
         shares |-> row.shares, current_assets |-> row.current_assets,
         currency |-> IF stock /\ keyed THEN determine_currency(row.name) ELSE "",
         price |-> Unset, usd_price |-> Unset,
         new_assets |-> Unset, new_ratio |-> Unset]

\* calculate_assets(entries, stock_data, fx_rates) on a ledger of the model,
\* quotes for any of its stocks and rates for any of its currencies; the
\* value returned is the list it was given, as the call left it.
CallCalculateAssets ==
    /\ NoCallYet
    /\ \E S \in Ledgers, keyed \in BOOLEAN, tie \in BOOLEAN :
          LET es == [i \in 1..NumEntries |-> ArgEntry(SeqOfSet(S)[i], keyed)]
              codes == {es[i].name : i \in stock_entries(es)}
              pairs == {FxPair(determine_currency(c)) : c \in codes}
          IN  \E q \in Responses(codes, {250004}), f \in Responses(pairs, {64}) :
                 LET sd == ParseQuotes(q)
                     fx == ParseFx(f)
                     res == calculate_assets(es, sd, fx, [i \in 1..NumEntries |-> tie])
                 IN  /\ call' = [fn |-> "calculate_assets", entries |-> es,
                                 stock_data |-> sd, fx_rates |-> fx]
                     /\ ret' = [raised |-> FALSE, value |-> res.entries,
                                failed |-> res.failed]

\* determine_currency(code) on any code of the model
CallDetermineCurrency ==
    /\ NoCallYet
    /\ \E code \in DOMAIN CodeInfo :
          /\ call' = [fn |-> "determine_currency", code |-> code]
          /\ ret' = [raised |-> FALSE, value |-> determine_currency(code)]

\* The two programs are separate processes: while one runs, the state of
\* the other is not there.
MonitorOff ==
    /\ store = <<>>
    /\ records = <<>>
    /\ prices = <<>>
    /\ mpc = "off"
    /\ idx = 0
    /\ alerted = <<>>
    /\ alerts = <<>>
    /\ mailed = <<>>
    /\ patched = <<>>
    /\ patches = <<>>
    /\ written = <<>>
    /\ prevRatchet = <<>>

PositionOff ==
    /\ pstore = <<>>
    /\ entries = <<>>
    /\ fx_rates = <<>>
    /\ stock_data = <<>>
    /\ ACCESS_TOKEN_CACHE = FALSE
    /\ token_calls = 0
    /\ net_value = Unset
    /\ calc_failed = FALSE
    /\ ppc = "off"
    /\ widx = 0
    /\ success = 0
    /\ pattempt = <<>>
    /\ pwrote = <<>>
    /\ tries = NoCalls
    /\ requested = {}

CallsOff ==
    /\ call = [fn |-> "off"]
    /\ ret = [raised |-> FALSE, value |-> EmptyDict]

vars == <<mvars, pvars, cvars>>

MonitorNext ==
    \/ Query /\ UNCHANGED <<pvars, cvars>>
    \/ FetchPrices /\ UNCHANGED <<pvars, cvars>>
    \/ SkipNoPrice /\ UNCHANGED <<pvars, cvars>>
    \/ LastPriceFailed /\ UNCHANGED <<pvars, cvars>>
    \/ SkipNoLines /\ UNCHANGED <<pvars, cvars>>
    \/ Normal /\ UNCHANGED <<pvars, cvars>>
    \/ HighBreach /\ UNCHANGED <<pvars, cvars>>
    \/ LowBreach /\ UNCHANGED <<pvars, cvars>>
    \/ FinishMonitor /\ UNCHANGED <<pvars, cvars>>

\* a monitor run starts, no valuation run in sight
MonitorStart == MonitorInit /\ PositionOff /\ CallsOff

SpecMonitor == MonitorStart /\ [][MonitorNext]_vars

PositionNext ==
    \/ QueryEntries /\ UNCHANGED <<mvars, cvars>>
    \/ FetchFx /\ UNCHANGED <<mvars, cvars>>
    \/ FetchStockData /\ UNCHANGED <<mvars, cvars>>
    \/ Calculate /\ UNCHANGED <<mvars, cvars>>
    \/ SkipUnpriced /\ UNCHANGED <<mvars, cvars>>
    \/ UpdateStock /\ UNCHANGED <<mvars, cvars>>
    \/ UpdateSpecial /\ UNCHANGED <<mvars, cvars>>
    \/ FinishPosition /\ UNCHANGED <<mvars, cvars>>

\* a valuation run starts, no monitor run in sight
PositionStart == PositionInit /\ MonitorOff /\ CallsOff

SpecPosition == PositionStart /\ [][PositionNext]_vars


CallsNext ==
    \/ CallFetchStockData /\ UNCHANGED <<mvars, pvars>>
    \/ CallFetchFxRates /\ UNCHANGED <<mvars, pvars>>
    \/ CallFetchStockPrices /\ UNCHANGED <<mvars, pvars>>
    \/ CallCalculateAssets /\ UNCHANGED <<mvars, pvars>>
    \/ CallDetermineCurrency /\ UNCHANGED <<mvars, pvars>>

\* a function is called outside a run
CallsStart == CallsInit /\ MonitorOff /\ PositionOff

SpecCalls == CallsStart /\ [][CallsNext]_vars

\* main of stock_position.py runs on to its end: every request it makes
\* returns or times out, and calculate_assets returns to it.
Responds ==
    \/ QueryEntries
    \/ FetchFx
    \/ FetchStockData
    \/ SkipUnpriced
    \/ UpdateStock
    \/ UpdateSpecial
    \/ FinishPosition

CalculateReturns == ppc = "calc" /\ ppc' = "update"

SpecPositionFair ==
    SpecPosition /\ WF_pvars(Responds) /\ WF_ppc(CalculateReturns)

\* A run of either program.
RunStart == MonitorStart \/ PositionStart

RunNext == MonitorNext \/ PositionNext

SpecRuns == RunStart /\ [][RunNext]_vars

(***************************************************************************)
(* Properties of the monitor run.                                          *)
(***************************************************************************)
\* the entry of page r as this run read it (its lines before the run)
Read(r) == r <= Len(records)
Abs(x) == IF x < 0 THEN -x ELSE x
BothLines(r) == records[r].high_line # None /\ records[r].low_line # None
LineProps == {HIGH_LINE_NAME, LOW_LINE_NAME}
LinesKept(r) ==
    /\ store[r].high_line = records[r].high_line
    /\ store[r].low_line = records[r].low_line

\* C1: when the alert dispatch for a breached record reports failure, no
\* write of High Line or Low Line is attempted for that record in the run,
\* and both stored lines keep the values they had before the run.
C1_FailedAlertNoRatchet ==
    \A r \in Pages :
        (alerted[r] # "none" /\ ~mailed[r]) =>
            /\ patched[r] \cap LineProps = {}
            /\ LinesKept(r)

C1_Witness ==
    \E r \in Pages : mpc = "done" /\ alerted[r] # "none" /\ ~mailed[r]

\* The stored line v (thousandths) is the cent nearest to price * factor / 100.
NearestCent(v, price, factor) ==
    /\ v % 10 = 0
    /\ Abs(100 * v - factor * price) <= 500

HighRatcheted(r) == alerted[r] = "high" /\ HIGH_LINE_NAME \in written[r]
LowRatcheted(r) == alerted[r] = "low" /\ LOW_LINE_NAME \in written[r]

C3_NoReAlertAtSamePrice ==
    \A r \in Pages :
        (prevRatchet[r] # None /\ prices[r] = prevRatchet[r]) =>
            alerted[r] = "none"

\* C5 as stated: at the end of a run, every record with both lines whose
\* fetched price is above high_line had a high alert dispatched, and every
\* one whose price is not above high_line and below low_line a low alert.
Breached(r, kind) ==
    /\ Read(r)
    /\ BothLines(r)
    /\ prices[r] # None
    /\ IF kind = "high"
       THEN prices[r] > records[r].high_line
       ELSE ~(prices[r] > records[r].high_line) /\ prices[r] < records[r].low_line

C5_EveryBreachAlerted ==
    mpc = "done" =>
        \A r \in Pages : \A kind \in {"high", "low"} :
            Breached(r, kind) => alerted[r] = kind

\* C5 amended: ... provided the write of the record's Last Price succeeded
\* in this run (when that write fails the record is skipped, unalerted).
C5_BreachAlertedAfterLastPrice ==
    mpc = "done" =>
        \A r \in Pages : \A kind \in {"high", "low"} :
            (Breached(r, kind) /\ LAST_PRICE_NAME \in written[r]) => alerted[r] = kind

C5_Witness ==
    /\ mpc = "done"
    /\ \E r \in Pages : Breached(r, "high") /\ alerted[r] = "high"
    /\ \E r \in Pages : Breached(r, "low") /\ alerted[r] = "low"

\* C6: a record with both lines and low_line < price < high_line gets no
\* alert, no write other than Last Price is attempted for it, and its
\* stored lines are unchanged.
InBand(r) ==
    /\ Read(r)
    /\ BothLines(r)
    /\ records[r].low_line < prices[r]
    /\ prices[r] < records[r].high_line

C6_NoBreachNoEffect ==
    \A r \in Pages :
        InBand(r) =>
            /\ alerted[r] = "none"
            /\ patched[r] \subseteq {LAST_PRICE_NAME}
            /\ LinesKept(r)

C6_Witness ==
    \E r \in Pages : mpc = "done" /\ InBand(r) /\ LAST_PRICE_NAME \in written[r]

\* C7: a record whose high_line or low_line is absent gets no alert and no
\* attempted write of High Line or Low Line, whatever its price.
C7_NoLinesNoAlert ==
    \A r \in Pages :
        (Read(r) /\ ~BothLines(r)) =>
            /\ alerted[r] = "none"
            /\ patched[r] \cap LineProps = {}

C7_Witness ==
    \E r \in Pages :
        /\ mpc = "done"
        /\ Read(r)
        /\ ~BothLines(r)
        /\ LAST_PRICE_NAME \in written[r]

(***************************************************************************)
(* Properties of the valuation run.                                        *)
(***************************************************************************)
\* calculate_assets has returned to main (the query gave entries)
Valued == ppc \in {"update", "done"} /\ entries # <<>>

CashRecords == {i \in 1..Len(entries) : entries[i].name = CASH_NAME}
NetRecords == {i \in 1..Len(entries) : entries[i].name = NET_ASSET_NAME}
StockRecords == {i \in 1..Len(entries) : entries[i].name \notin {CASH_NAME, NET_ASSET_NAME}}
Quoted == {i \in StockRecords : entries[i].name \in DOMAIN stock_data}

\* the CASH record the valuation uses has a numeric current_assets
NumericCash ==
    /\ CashRecords # {}
    /\ \A i \in CashRecords :
          (\A j \in CashRecords : i <= j) => entries[i].current_assets # None
TheCash == CHOOSE i \in CashRecords : \A j \in CashRecords : i <= j

\* no CASH record has a numeric current_assets
NoNumericCash == \A i \in CashRecords : entries[i].current_assets = None

NoPatch == \A id \in DOMAIN pattempt : pattempt[id] = {}

RECURSIVE SumAssets(_)
SumAssets(S) ==
    IF S = {} THEN 0
    ELSE LET i == CHOOSE x \in S : TRUE
         IN  entries[i].new_assets + SumAssets(S \ {i})

RECURSIVE SumRatios(_)
SumRatios(S) ==
    IF S = {} THEN 0
    ELSE LET i == CHOOSE x \in S : TRUE
         IN  entries[i].new_ratio + SumRatios(S \ {i})

C8_ValuationConservation ==
    (Valued /\ NumericCash) =>
        /\ net_value = entries[TheCash].new_assets + SumAssets(StockRecords)
        /\ \A n \in NetRecords : entries[n].new_assets = net_value

C8_Witness ==
    /\ Valued /\ NumericCash
    /\ NetRecords # {}
    /\ \E i \in Quoted : entries[i].new_assets > 0
    /\ entries[TheCash].new_assets > 0

\* C9: with a valid CASH record, when the net value is not 0 the ratios of
\* the records other than NET_ASSET add up to 1.0 to within half a unit of
\* the fourth decimal per record, and when the net value is 0 every ratio
\* is 0.0.
C9_RatioNormalization ==
    (Valued /\ NumericCash) =>
        IF net_value # 0
        THEN LET others == (1..Len(entries)) \ NetRecords
                 diff == SumRatios(others) - RatioScale
             IN  2 * (IF diff < 0 THEN -diff ELSE diff) <= Cardinality(others)
        ELSE \A i \in 1..Len(entries) : entries[i].new_ratio = 0

C9_Witness ==
    /\ Valued /\ NumericCash
    /\ net_value # 0
    /\ Cardinality({i \in 1..Len(entries) :
                       entries[i].new_ratio > 0 /\ entries[i].new_ratio < RatioScale}) >= 3
    /\ SumRatios((1..Len(entries)) \ NetRecords) # RatioScale

\* C10: in a run whose ledger has a valid CASH record, whichever stocks have
\* a quote, the valuation completes (a net value and a ratio for every
\* record), every stock without a quote has new_assets 0.0, and at the end
\* of a run in which every update call returned True every quoted stock has
\* both its writes done and is counted in success.
C10_PartialFailureIsolation ==
    (Valued /\ NumericCash) =>
        /\ net_value # Unset
        /\ \A i \in 1..Len(entries) : entries[i].new_ratio # Unset
        /\ \A i \in StockRecords \ Quoted : entries[i].new_assets = 0
        /\ (ppc = "done" /\ pattempt = pwrote) =>
              /\ \A i \in Quoted : pwrote[entries[i].id] = {"properties", "assets"}
              /\ success = Cardinality({id \in DOMAIN pwrote : "assets" \in pwrote[id]})
              /\ success >= Cardinality(Quoted)

C10_Witness ==
    /\ Valued /\ NumericCash
    /\ ppc = "done" /\ pattempt = pwrote
    /\ Quoted # {}
    /\ StockRecords \ Quoted # {}
    /\ success = Cardinality(Quoted) + 1

LastId == entries[widx - 1].id
Handled == ppc \in {"update", "done"} /\ widx > 1

\* the retry contract of the two update functions of the valuation run
RetriesBounded ==
    Handled =>
        \A k \in {"properties", "assets"} :
            /\ tries[k].sent <= MaxTries
            /\ tries[k].landed <= 1
            /\ (k \in pattempt[LastId]) <=> (tries[k].sent >= 1)
            /\ (k \in pwrote[LastId]) <=> (tries[k].landed = 1)
            /\ (k \in pattempt[LastId] \ pwrote[LastId]) => tries[k].sent = MaxTries

\* C12 as stated: the update functions of the valuation run retry as said,
\* and a write of the monitor that returned failure was attempted 3 times.
\* (Violated: update_notion_property sends a single PATCH request.)
C12_RetryEverywhere ==
    /\ RetriesBounded
    /\ \A r \in DOMAIN patched :
          (LAST_PRICE_NAME \in patched[r] \ written[r]) => patches[r] = MaxTries

\* C12 amended: update_notion_properties and update_asset_properties send
\* at most 3 PATCH requests, none after one that succeeded, and return
\* False only when 3 requests failed; update_notion_property of the monitor
\* sends exactly one PATCH request per call, whatever its result.  The loop
\* of either main goes on after a failed call.
C12_BoundedRetry ==
    /\ RetriesBounded
    /\ \A r \in DOMAIN patched : patches[r] = Cardinality(patched[r])

C12_Witness ==
    /\ Handled
    /\ tries["properties"] = [sent |-> 2, landed |-> 1]
    /\ tries["assets"] = [sent |-> MaxTries, landed |-> 0]
    /\ widx <= Len(entries)

\* the records all of whose writes were made and succeeded
FullyWritten ==
    {id \in DOMAIN pwrote :
        pwrote[id] = IF pstore[id].name \in {CASH_NAME, NET_ASSET_NAME}
                     THEN {"assets"}
                     ELSE {"properties", "assets"}}

\* whether record i gets its writes attempted depends on the record alone
AttemptedOnOwnData(i) ==
    LET e == entries[i]
        valued == e.new_assets # Unset /\ e.new_ratio # Unset
    IN  IF i \in StockRecords
        THEN /\ ("properties" \in pattempt[e.id]) <=> (i \in Quoted)
             /\ ("assets" \in pattempt[e.id]) <=>
                    (i \in Quoted /\ "properties" \in pwrote[e.id] /\ valued)
        ELSE ("assets" \in pattempt[e.id]) <=> valued

\* C13: whatever writes fail, every record gets the write attempts its own
\* data call for (a failure for an earlier record changes nothing for a
\* later one), the run reaches its summary, and the success count is the
\* number of records whose writes were all made and succeeded, at most the
\* number of records.
C13_WriteIsolation ==
    /\ [](Valued => /\ success = Cardinality(FullyWritten)
                    /\ success <= Len(entries))
    /\ []((Valued /\ ppc = "done") =>
             \A i \in 1..Len(entries) : AttemptedOnOwnData(i))
    /\ <>(ppc = "done")

C13_Witness ==
    /\ Valued /\ ppc = "done"
    /\ \E i \in 1..Len(entries), j \in 1..Len(entries) :
          /\ i < j
          /\ pattempt[entries[i].id] \ pwrote[entries[i].id] # {}
          /\ pwrote[entries[j].id] # {}
    /\ success = 2

(***************************************************************************)
(* Properties of the functions called on their own.                        *)
(***************************************************************************)
Fetches == {"fetch_stock_prices", "fetch_stock_data", "fetch_fx_rates"}

\* the key a fetch returns the value of instrument c under
KeyOf(c) == IF call.fn = "fetch_fx_rates" THEN RateKey(c) ELSE c

BadItems == {c \in DOMAIN call.resp : call.resp[c] \in Bad}
GoodItems == DOMAIN call.resp \ BadItems

\* C14 as stated: when a response holds several instruments and the value
\* of one cannot be coerced, the fetch returns the prices of all the
\* others, the bad one is absent, and no exception escapes.  (Violated:
\* fetch_stock_data and fetch_fx_rates return {} for the whole batch, and
\* fetch_stock_prices lets an exception escape when the value is null.)
C14_CoercionFailureIsolated ==
    (call.fn \in Fetches /\ BadItems # {} /\ GoodItems # {} /\
     (call.fn = "fetch_fx_rates" => (call.token /\ ~call.failed))) =>
        /\ ~ret.raised
        /\ \A c \in GoodItems : KeyOf(c) \in DOMAIN ret.value
        /\ \A c \in BadItems : KeyOf(c) \notin DOMAIN ret.value

\* C15 as stated: calculate_assets never raises, and when the valuation
\* pass fails the records it returns are as they were before the call.
\* (Violated: the records are changed in place, and a failure inside the
\* stock loop comes after the CASH record and the stocks before it have
\* got their new_assets.)
C15_FailureLeavesRecords ==
    call.fn = "calculate_assets" =>
        /\ ~ret.raised
        /\ ret.failed => ret.value = call.entries

\* a call of fetch_fx_rates that got an answer it could parse
FxAnswered ==
    /\ call.fn = "fetch_fx_rates"
    /\ call.token /\ ~call.failed
    /\ ret.request # {}
    /\ BadItems = {}

USDCNY == [base |-> "USD", quote |-> "CNY"]
HKDUSD == [base |-> "HKD", quote |-> "USD"]

\* the currencies of the call other than USD, in upper case
Requested == {upper(c) : c \in call.currencies} \ {"USD"}

UsdPair(p) == p.quote = "USD" /\ p.base \in {"USD", "usd"}

\* C17 as stated: whatever the currencies, no pair for USD is requested and
\* the mapping returned maps USD to 1.0.  (Violated: the mapping is empty
\* when there is nothing to request, no token, or the request fails.)
C17_UsdAlwaysMapped ==
    call.fn = "fetch_fx_rates" =>
        /\ \A p \in ret.request : ~UsdPair(p)
        /\ "USD" \in DOMAIN ret.value
        /\ ret.value["USD"] = FxScale

\* C17 amended: no pair for USD is requested; a mapping that is not empty
\* maps USD to 1.0; the mapping is empty, USD absent from it, exactly when
\* no currency other than USD was given, no token was obtained, the request
\* failed or a value of the answer was no number.
C17_UsdHandling ==
    call.fn = "fetch_fx_rates" =>
        /\ \A p \in ret.request : ~UsdPair(p)
        /\ ret.value # EmptyDict =>
              ("USD" \in DOMAIN ret.value /\ ret.value["USD"] = FxScale)
        /\ ret.value = EmptyDict <=>
              \/ call.currencies \subseteq {"USD", "usd"}
              \/ ~call.token
              \/ call.failed
              \/ BadItems # {}

C17_Witness ==
    /\ call.fn = "fetch_fx_rates"
    /\ {"USD", "usd", "HKD"} \subseteq call.currencies
    /\ ret.request = {HKDUSD}
    /\ HKDUSD \in DOMAIN call.resp
    /\ ret.value = [k \in {"HKD", "USD"} |-> IF k = "USD" THEN FxScale ELSE 64]

\* a code with none of the suffixes of the exchanges, and not made of at
\* most five letters
InvalidCode(c) ==
    /\ CodeInfo[c].suffix \notin {".HK", ".SZ", ".SH", ".O", ".N", ".T"}
    /\ ~CodeInfo[c].bare

\* the stock records of the ledger whose code is not valid
InvalidStocks ==
    {id \in DOMAIN pstore :
        /\ pstore[id].name \notin {CASH_NAME, NET_ASSET_NAME}
        /\ InvalidCode(pstore[id].name)}

\* C18: once the quotes are fetched, a stock record whose code is not valid
\* is not in the quote request and has no quote; it is still among the
\* records that go through the valuation, without price, with new_assets
\* 0.0 when the valuation ran (no new_assets at all when it aborted for
\* want of a CASH record); no PATCH is sent for it and no price stored.
C18_InvalidCodeUnpriced ==
    (ppc \in {"calc", "update", "done"} /\ entries # <<>>) =>
        \A id \in InvalidStocks :
            /\ pstore[id].name \notin requested
            /\ pstore[id].name \notin DOMAIN stock_data
            /\ \E i \in 1..Len(entries) :
                  /\ entries[i].id = id
                  /\ entries[i].price = Unset /\ entries[i].usd_price = Unset
                  /\ ppc # "calc" =>
                        entries[i].new_assets = IF NumericCash THEN 0 ELSE Unset
            /\ pattempt[id] = {}
            /\ pstore[id].price = Unset /\ pstore[id].usd_price = Unset

C18_Witness ==
    /\ ppc = "done" /\ NumericCash
    /\ InvalidStocks # {}
    /\ requested # {}
    /\ \E i \in Quoted : pwrote[entries[i].id] = {"properties", "assets"}

\* ---------------------------------------------------------------------
\* C19 (as the spec states it): the currency of a stock is a total,
\* deterministic function of the suffix of its code: .HK gives HKD, .SZ
\* and .SH give CNY, .T gives JPY, and .O, .N, no suffix or any other
\* suffix give USD.
CurrencyTable ==
    [c \in {"AAPL", "0700.HK", "600519.SH", "BRK.B", "000001.SZ", "7203.T",
            "MSFT.O", "IBM.N", "0700.hk"} |->
        CASE c = "0700.HK" -> "HKD"
          [] c \in {"000001.SZ", "600519.SH"} -> "CNY"
          [] c = "7203.T" -> "JPY"
          [] OTHER -> "USD"]

C19_CurrencyTable ==
    call.fn = "determine_currency" =>
        /\ ~ret.raised
        /\ call.code \in DOMAIN CurrencyTable
        /\ ret.value = CurrencyTable[call.code]

\* determine_currency("7203.T") returned JPY
C19_Witness ==
    /\ call.fn = "determine_currency"
    /\ call.code = "7203.T"
    /\ ret.value = "JPY"

\* ---------------------------------------------------------------------
\* the asset values stored on the pages of the records S, in cents
RECURSIVE StoredAssets(_)
StoredAssets(S) ==
    IF S = {} THEN 0
    ELSE LET i == CHOOSE x \in S : TRUE
         IN  pstore[entries[i].id].assets + StoredAssets(S \ {i})

\* C20 as stated: after a position run with a valid CASH record in which
\* every write succeeds, the asset value stored on the NET_ASSET record is
\* the stored CASH asset value plus the sum of the asset values stored on
\* all STOCK records; a stock with no quote is stored with asset value 0.
\* The equality is taken to within the half cent that round(assets, 2) may
\* move each stored value.  (Violated: the update loop skips a stock that
\* has no quote, so its page keeps the value an earlier run stored.)
C20_StoredLedgerConsistent ==
    (ppc = "done" /\ Valued /\ NumericCash /\ pattempt = pwrote) =>
        /\ \A n \in NetRecords :
              LET diff == pstore[entries[n].id].assets
                            - (pstore[entries[TheCash].id].assets
                                 + StoredAssets(StockRecords))
              IN  2 * (IF diff < 0 THEN -diff ELSE diff)
                     <= Cardinality(StockRecords) + 2
        /\ \A i \in StockRecords \ Quoted : pstore[entries[i].id].assets = 0

\* ---------------------------------------------------------------------
\* C21: in a monitor run at most one alert is dispatched per record and a
\* write of at most one of high_line / low_line is made per record; a low
\* alert is dispatched only when the price is not above the record's
\* high_line; a high-breach ratchet leaves low_line as the run read it and
\* a low-breach ratchet leaves high_line as the run read it.
C21_OneTransitionHighFirst ==
    \A r \in Pages :
        /\ alerts[r] <= 1
        /\ Cardinality(patched[r] \cap {HIGH_LINE_NAME, LOW_LINE_NAME}) <= 1
        /\ written[r] \subseteq patched[r]
        /\ alerted[r] = "low" =>
              /\ ~(prices[r] > records[r].high_line)
              /\ prices[r] < records[r].low_line
              /\ store[r].high_line = records[r].high_line
              /\ HIGH_LINE_NAME \notin patched[r]
        /\ alerted[r] = "high" =>
              /\ prices[r] > records[r].high_line
              /\ store[r].low_line = records[r].low_line
              /\ LOW_LINE_NAME \notin patched[r]
        /\ alerted[r] = "none" =>
              /\ alerts[r] = 0
              /\ patched[r] \cap {HIGH_LINE_NAME, LOW_LINE_NAME} = {}

\* a record whose price is above its high_line and below its low_line (an
\* inverted band) got the high alert, and only its high_line was written
C21_Witness ==
    \E r \in Pages :
        /\ alerted[r] = "high"
        /\ alerts[r] = 1
        /\ prices[r] < records[r].low_line
        /\ HIGH_LINE_NAME \in written[r]
        /\ store[r].high_line # records[r].high_line

=========================================================================
